---- MODULE Spec2Model ----
(***************************************************************************)
(* A model of the CSV splitter (src/csv-splitter.py) and of the Azure blob *)
(* CSV merger (src/csv_merger.py).                                         *)
(*                                                                         *)
(* Text (file names, blob names, patterns) is a sequence of one-character  *)
(* strings, so that stem, suffix, basename, lower(), strip('/'),           *)
(* startswith, endswith and "in" are computed as Python computes them.     *)
(*                                                                         *)
(* SplitSpec is one run of split_csv_by_size.  The input file is read as a *)
(* stream: every iteration of "for row in reader" either yields the next   *)
(* data row or ends the stream, so the number of data rows of the source   *)
(* is decided while it is read, and rows_read is the source's data rows    *)
(* once the stream has ended.                                              *)
(*                                                                         *)
(* MergeSpec is a sequence of runs of merge_csv_files_by_pattern against   *)
(* one container; the merged outputs of a run can be uploaded and are then *)
(* listed by the next run.                                                 *)
(***************************************************************************)
EXTENDS Naturals, Sequences, FiniteSets, TLC

VARIABLES
    \* ---- splitter: arguments and environment
    input_name,        \* name of the input file (characters)
    input_exists,      \* input_path.exists()
    has_header,        \* the input file has a first row (it is not empty)
    source_eol,        \* bytes of the line terminator of the input file
    output_dir_arg,    \* "None" or the name of a directory
    keep_header,
    target_size_bytes, \* chunk_size_mb * 1024 * 1024
    row_bytes,         \* <<payload bytes of odd rows, payload bytes of even rows>>
    fs,                \* the file system: path -> file content
    infile,            \* what the open input stream still yields
    \* ---- splitter: locals of split_csv_by_size and write_chunk
    pc,
    error,
    rows_read,         \* the rows the reader has yielded so far
    current_chunk,
    chunk_number,
    chunk_files,
    current_size,
    w_path,            \* write_chunk: output_path
    w_ret,             \* write_chunk: where the caller continues
    stale_left         \* rows a clobbered input stream may still yield

splitVars == <<input_name, input_exists, has_header, source_eol, output_dir_arg,
               keep_header,
               target_size_bytes, row_bytes, fs, infile, pc, error, rows_read,
               current_chunk, chunk_number, chunk_files, current_size, w_path,
               w_ret, stale_left>>

VARIABLES
    \* ---- merger: arguments and environment
    base_path_arg,     \* base_path as passed
    subfolders,        \* "None" or a list of names
    include_root,
    truth_pattern,
    add_metadata,
    upload_to_azure,
    container,         \* the container: list of blobs [name, table] in listing order
    local_files,       \* local output files: filename -> table
    \* ---- merger: locals of merge_csv_files_by_pattern and merge_blobs
    mpc,
    m_run,             \* number of runs started
    base_path,         \* base_path after normalisation
    csv_blobs,
    filtered_blobs,
    truth_blobs,
    other_blobs,
    group,             \* file_type of the current merge_blobs call
    g_i,               \* index of the blob being processed (enumerate)
    merged_data,
    successful_files,
    failed_files,
    \* ---- merger: what the run has logged and written
    attempt_log,       \* per group: the [i/n] log lines, as [name, ok]
    writes,            \* per group: number of to_csv calls
    \* ---- merger: the logging module of the process
    root_handlers,     \* log files of the FileHandlers installed on the root logger
    log_files          \* log file -> the runs whose lines it holds

mergeVars == <<base_path_arg, subfolders, include_root, truth_pattern, add_metadata,
               upload_to_azure, container, local_files, mpc, m_run, base_path,
               csv_blobs, filtered_blobs, truth_blobs, other_blobs, group, g_i,
               merged_data, successful_files, failed_files, attempt_log, writes,
               root_handlers, log_files>>

\* The merger at rest, for the runs of the splitter
MergeIdle ==
    /\ base_path_arg = <<>>
    /\ subfolders = [is_none |-> TRUE, names |-> <<>>]
    /\ include_root = TRUE
    /\ truth_pattern = <<>>
    /\ add_metadata = FALSE
    /\ upload_to_azure = FALSE
    /\ container = <<>>
    /\ local_files = <<>>
    /\ mpc = "idle"
    /\ m_run = 0
    /\ base_path = <<>>
    /\ csv_blobs = <<>>
    /\ filtered_blobs = <<>>
    /\ truth_blobs = <<>>
    /\ other_blobs = <<>>
    /\ group = "none"
    /\ g_i = 0
    /\ merged_data = <<>>
    /\ successful_files = <<>>
    /\ failed_files = <<>>
    /\ attempt_log = <<>>
    /\ writes = <<>>
    /\ root_handlers = {}
    /\ log_files = <<>>

vars == <<splitVars, mergeVars>>

----------------------------------------------------------------------------
\* Bounds of the model
MaxRows == 201
MaxRowBytes == 2
TargetStep == 300
MaxTargetSteps == 3
HeaderPayload == 3
MaxStale == 2

\* Program constants
ProbeInterval == 100
MinSealRows == 100
PadWidth == 3
LineTerminatorBytes == 2

----------------------------------------------------------------------------
\* Text helpers

Digits == <<"0", "1", "2", "3", "4", "5", "6", "7", "8", "9">>

RECURSIVE DecimalOf(_)
DecimalOf(n) ==
    IF n < 10 THEN <<Digits[n + 1]>>
    ELSE DecimalOf(n \div 10) \o <<Digits[(n % 10) + 1]>>

RECURSIVE ZeroFill(_, _)
ZeroFill(s, width) == IF Len(s) >= width THEN s ELSE ZeroFill(<<"0">> \o s, width)

Pad3NoFill(n) == DecimalOf(n)

\* f"{n:03d}"
Pad3(n) == ZeroFill(DecimalOf(n), PadWidth)

StartsWith(s, p) == Len(s) >= Len(p) /\ SubSeq(s, 1, Len(p)) = p

EndsWith(s, p) == Len(s) >= Len(p) /\ SubSeq(s, Len(s) - Len(p) + 1, Len(s)) = p

\* str.rfind(c), 1-based; 0 when c does not occur
RFind(s, c) ==
    LET hits == {i \in 1..Len(s) : s[i] = c}
    IN IF hits = {} THEN 0 ELSE CHOOSE i \in hits : \A j \in hits : j <= i

\* pathlib: PurePath.suffix
Suffix(name) ==
    LET i == RFind(name, ".")
    IN IF 1 < i /\ i < Len(name) THEN SubSeq(name, i, Len(name)) ELSE <<>>

\* pathlib: PurePath.stem
Stem(name) ==
    LET i == RFind(name, ".")
    IN IF 1 < i /\ i < Len(name) THEN SubSeq(name, 1, i - 1) ELSE name

S_chunk == <<"_", "c", "h", "u", "n", "k", "_">>
S_temp_chunk == <<"t", "e", "m", "p", "_", "c", "h", "u", "n", "k">>
S_d_csv == <<"d", ".", "c", "s", "v">>
S_temp_chunk_csv == S_temp_chunk \o <<".", "c", "s", "v">>

InputNames == {S_d_csv, S_temp_chunk_csv}
InputDir == "in"
OutputDirArgs == {"None", "out"}

Path(dir, name) == [dir |-> dir, name |-> name]

----------------------------------------------------------------------------
\* split_csv_by_size: derived values

input_path == Path(InputDir, input_name)

\* output_dir: the input's parent when the argument is None
output_dir == IF output_dir_arg = "None" THEN InputDir ELSE output_dir_arg

base_name == Stem(input_name)
extension == Suffix(input_name)

temp_chunk_path == Path(output_dir, S_temp_chunk \o extension)

\* f"{base_name}_chunk_{chunk_number:03d}{extension}"
ChunkFilename(n) == base_name \o S_chunk \o Pad3(n) \o extension

ChunkPath(n) == Path(output_dir, ChunkFilename(n))

\* Payload bytes of a row as csv.writer writes it; row 0 is a row that was
\* not in the source (read back from an overwritten input file).
RowPayload(r) == IF r = 0 THEN 1 ELSE IF r % 2 = 1 THEN row_bytes[1] ELSE row_bytes[2]

RECURSIVE RowsBytes(_)
RowsBytes(rows) ==
    IF rows = <<>> THEN 0
    ELSE IF Len(rows) = 1 THEN RowPayload(rows[1]) + LineTerminatorBytes
    ELSE LET h == Len(rows) \div 2
         IN RowsBytes(SubSeq(rows, 1, h)) + RowsBytes(SubSeq(rows, h + 1, Len(rows)))

\* os.path.getsize of a file that write_chunk wrote: every row is its payload
\* and csv.writer's line terminator
FileSize(f) ==
    (IF f.header THEN HeaderPayload + LineTerminatorBytes ELSE 0) + RowsBytes(f.rows)

\* The line terminator of the input file: "\n", or "\r\n" as csv.writer writes
SourceTerminators == {1, LineTerminatorBytes}

\* os.path.getsize of the input file whose data rows are rows: header and rows
\* with the file's own line terminator
SourceSize(rows) ==
    (HeaderPayload + source_eol) + RowsBytes(rows)
        - Len(rows) * (LineTerminatorBytes - source_eol)

SourceFile == [kind |-> "source", header |-> has_header, rows |-> <<>>, closed |-> TRUE]

\* write_chunk, after open(output_path, 'w'): the file exists and is empty
OpenedFile == [kind |-> "csv", header |-> FALSE, rows |-> <<>>, closed |-> FALSE]

\* write_chunk, after the with block: header (if given) and all rows
WrittenFile(header, rows) == [kind |-> "csv", header |-> header, rows |-> rows, closed |-> TRUE]

ProbeDueEvery50(chunk) == Len(chunk) % 50 = 0

\* len(current_chunk) % 100 == 0
ProbeDue(chunk) == Len(chunk) % ProbeInterval = 0

ShouldSealStrict(size, chunk) == size > target_size_bytes /\ Len(chunk) >= MinSealRows

ShouldSealAtBoundary(size, chunk) == Len(chunk) >= MinSealRows

\* current_size >= target_size_bytes and len(current_chunk) >= 100
ShouldSeal(size, chunk) == size >= target_size_bytes /\ Len(chunk) >= MinSealRows

ChunkAfterSealKept(chunk) == chunk

\* current_chunk = [] after a seal
ChunkAfterSeal(chunk) == <<>>

Remove(f, p) == [q \in (DOMAIN f) \ {p} |-> f[q]]

Put(f, p, c) == [q \in (DOMAIN f) \cup {p} |-> IF q = p THEN c ELSE f[q]]

\* Path.rename on POSIX: the target is replaced
Rename(f, from, to) == Put(Remove(f, from), to, f[from])

\* output_dir.glob("temp_chunk*")
TempFiles(f) == {p \in DOMAIN f : p.dir = output_dir /\ StartsWith(p.name, S_temp_chunk)}

----------------------------------------------------------------------------
\* split_csv_by_size: one run

Targets == {k * TargetStep : k \in 0..MaxTargetSteps}

SplitInit ==
    /\ input_name \in InputNames
    /\ input_exists \in BOOLEAN
    /\ has_header \in BOOLEAN
    /\ source_eol \in SourceTerminators
    /\ output_dir_arg \in OutputDirArgs
    /\ keep_header \in BOOLEAN
    /\ target_size_bytes \in Targets
    /\ row_bytes \in (1..MaxRowBytes) \X (1..MaxRowBytes)
    /\ fs = IF input_exists
            THEN [p \in {input_path} |-> SourceFile]
            ELSE [p \in {} |-> SourceFile]
    /\ infile = "intact"
    /\ pc = "start"
    /\ error = "none"
    /\ rows_read = <<>>
    /\ current_chunk = <<>>
    /\ chunk_number = 1
    /\ chunk_files = <<>>
    /\ current_size = 0
    /\ w_path = input_path
    /\ w_ret = "none"
    /\ stale_left = 0
    /\ MergeIdle

Raise(e) == pc' = "raised" /\ error' = e

\* lines 54-68
CheckInput ==
    /\ pc = "start"
    /\ IF ~input_exists
       THEN Raise("FileNotFoundError")
       ELSE pc' = "estimate" /\ UNCHANGED error
    /\ UNCHANGED mergeVars
    /\ UNCHANGED <<input_name, input_exists, has_header, source_eol, output_dir_arg,
                   keep_header,
                   target_size_bytes, row_bytes, fs, infile, rows_read, current_chunk,
                   chunk_number, chunk_files, current_size, w_path, w_ret, stale_left>>

\* lines 70-76 with estimate_rows_per_chunk (lines 21-39): next(reader) on a
\* file without a first row raises StopIteration; the estimate itself is only
\* printed.
EstimateRows ==
    /\ pc = "estimate"
    /\ IF ~has_header
       THEN Raise("StopIteration")
       ELSE pc' = "header" /\ UNCHANGED error
    /\ chunk_files' = <<>>
    /\ chunk_number' = 1
    /\ UNCHANGED mergeVars
    /\ UNCHANGED <<input_name, input_exists, has_header, source_eol, output_dir_arg,
                   keep_header,
                   target_size_bytes, row_bytes, fs, infile, rows_read, current_chunk,
                   current_size, w_path, w_ret, stale_left>>

\* lines 78-87
ReadHeader ==
    /\ pc = "header"
    /\ IF ~has_header
       THEN Raise("ValueError: CSV file is empty")
       ELSE pc' = "loop" /\ UNCHANGED error
    /\ current_chunk' = <<>>
    /\ UNCHANGED mergeVars
    /\ UNCHANGED <<input_name, input_exists, has_header, source_eol, output_dir_arg,
                   keep_header,
                   target_size_bytes, row_bytes, fs, infile, rows_read,
                   chunk_number, chunk_files, current_size, w_path, w_ret, stale_left>>

\* The rows the reader can yield next.  An intact input yields its next row;
\* an input that a probe write has overwritten yields, for a few more rows,
\* either its next buffered row or a row that was never in the source.
Yieldable ==
    IF infile = "intact"
    THEN (IF Len(rows_read) < MaxRows THEN {Len(rows_read) + 1} ELSE {})
    ELSE (IF stale_left > 0 /\ Len(rows_read) < MaxRows
          THEN {Len(rows_read) + 1, 0} ELSE {})

\* lines 89-96: one iteration of the loop up to the call of write_chunk
NextRow ==
    /\ pc = "loop"
    /\ \E row \in Yieldable :
         /\ rows_read' = Append(rows_read, row)
         /\ current_chunk' = Append(current_chunk, row)
    /\ stale_left' = IF infile = "intact" THEN stale_left ELSE stale_left - 1
    /\ IF ProbeDue(current_chunk')
       THEN pc' = "w_open" /\ w_path' = temp_chunk_path /\ w_ret' = "measure"
       ELSE pc' = "loop" /\ UNCHANGED <<w_path, w_ret>>
    /\ UNCHANGED mergeVars
    /\ UNCHANGED <<input_name, input_exists, has_header, source_eol, output_dir_arg,
                   keep_header,
                   target_size_bytes, row_bytes, fs, infile, error,
                   chunk_number, chunk_files, current_size>>

\* line 89: the reader is exhausted
EndOfStream ==
    /\ pc = "loop"
    /\ pc' = "final"
    /\ UNCHANGED mergeVars
    /\ UNCHANGED <<input_name, input_exists, has_header, source_eol, output_dir_arg,
                   keep_header,
                   target_size_bytes, row_bytes, fs, infile, error, rows_read,
                   current_chunk, chunk_number, chunk_files, current_size, w_path,
                   w_ret, stale_left>>

\* write_chunk, line 142: open(output_path, 'w') creates or truncates the file.
\* Truncating the file the reader has open leaves the reader with what it has
\* buffered.
WriteOpen ==
    /\ pc = "w_open"
    /\ fs' = Put(fs, w_path, OpenedFile)
    /\ IF w_path = input_path /\ infile = "intact"
       THEN infile' = "clobbered" /\ stale_left' \in 0..MaxStale
       ELSE UNCHANGED <<infile, stale_left>>
    /\ pc' = "w_body"
    /\ UNCHANGED mergeVars
    /\ UNCHANGED <<input_name, input_exists, has_header, source_eol, output_dir_arg,
                   keep_header,
                   target_size_bytes, row_bytes, error, rows_read, current_chunk,
                   chunk_number, chunk_files, current_size, w_path, w_ret>>

\* write_chunk, lines 143-148: header if given, then the rows; the file is closed
WriteBody ==
    /\ pc = "w_body"
    /\ fs' = Put(fs, w_path, WrittenFile(keep_header, current_chunk))
    /\ pc' = w_ret
    /\ UNCHANGED mergeVars
    /\ UNCHANGED <<input_name, input_exists, has_header, source_eol, output_dir_arg,
                   keep_header,
                   target_size_bytes, row_bytes, infile, error, rows_read, current_chunk,
                   chunk_number, chunk_files, current_size, w_path, w_ret, stale_left>>

\* line 97
MeasureProbe ==
    /\ pc = "measure"
    /\ current_size' = FileSize(fs[temp_chunk_path])
    /\ pc' = "decide"
    /\ UNCHANGED mergeVars
    /\ UNCHANGED <<input_name, input_exists, has_header, source_eol, output_dir_arg,
                   keep_header,
                   target_size_bytes, row_bytes, fs, infile, error, rows_read,
                   current_chunk, chunk_number, chunk_files, w_path, w_ret, stale_left>>

\* lines 100-113
SealChunk ==
    /\ pc = "decide"
    /\ ShouldSeal(current_size, current_chunk)
    /\ fs' = Rename(fs, temp_chunk_path, ChunkPath(chunk_number))
    /\ chunk_files' = Append(chunk_files, ChunkPath(chunk_number))
    /\ current_chunk' = ChunkAfterSeal(current_chunk)
    /\ chunk_number' = chunk_number + 1
    /\ pc' = "loop"
    /\ UNCHANGED mergeVars
    /\ UNCHANGED <<input_name, input_exists, has_header, source_eol, output_dir_arg,
                   keep_header,
                   target_size_bytes, row_bytes, infile, error, rows_read,
                   current_size, w_path, w_ret, stale_left>>

\* lines 114-116
DiscardProbe ==
    /\ pc = "decide"
    /\ ~ShouldSeal(current_size, current_chunk)
    /\ fs' = Remove(fs, temp_chunk_path)
    /\ pc' = "loop"
    /\ UNCHANGED mergeVars
    /\ UNCHANGED <<input_name, input_exists, has_header, source_eol, output_dir_arg,
                   keep_header,
                   target_size_bytes, row_bytes, infile, error, rows_read, current_chunk,
                   chunk_number, chunk_files, current_size, w_path, w_ret, stale_left>>

\* An I/O error (OSError) raised by open, write, getsize, rename or unlink
\* propagates out of split_csv_by_size: nothing in lines 78-127 catches it.
IOFailure ==
    /\ pc \in {"w_open", "w_body", "measure", "decide"}
    /\ Raise("OSError")
    /\ UNCHANGED mergeVars
    /\ UNCHANGED <<input_name, input_exists, has_header, source_eol, output_dir_arg,
                   keep_header,
                   target_size_bytes, row_bytes, fs, infile, rows_read, current_chunk,
                   chunk_number, chunk_files, current_size, w_path, w_ret, stale_left>>

\* lines 118-123: the remaining rows are written straight to the chunk path
FinalChunk ==
    /\ pc = "final"
    /\ IF current_chunk # <<>>
       THEN pc' = "w_open" /\ w_path' = ChunkPath(chunk_number) /\ w_ret' = "final_append"
       ELSE pc' = "cleanup" /\ UNCHANGED <<w_path, w_ret>>
    /\ UNCHANGED mergeVars
    /\ UNCHANGED <<input_name, input_exists, has_header, source_eol, output_dir_arg,
                   keep_header,
                   target_size_bytes, row_bytes, fs, infile, error, rows_read,
                   current_chunk, chunk_number, chunk_files, current_size, stale_left>>

\* lines 124-127
FinalAppend ==
    /\ pc = "final_append"
    /\ chunk_files' = Append(chunk_files, ChunkPath(chunk_number))
    /\ pc' = "cleanup"
    /\ UNCHANGED mergeVars
    /\ UNCHANGED <<input_name, input_exists, has_header, source_eol, output_dir_arg,
                   keep_header,
                   target_size_bytes, row_bytes, fs, infile, error, rows_read,
                   current_chunk, chunk_number, current_size, w_path, w_ret, stale_left>>

\* lines 129-132
Cleanup ==
    /\ pc = "cleanup"
    /\ fs' = [p \in (DOMAIN fs) \ TempFiles(fs) |-> fs[p]]
    /\ pc' = "summary"
    /\ UNCHANGED mergeVars
    /\ UNCHANGED <<input_name, input_exists, has_header, source_eol, output_dir_arg,
                   keep_header,
                   target_size_bytes, row_bytes, infile, error, rows_read, current_chunk,
                   chunk_number, chunk_files, current_size, w_path, w_ret, stale_left>>

\* lines 134-138: os.path.getsize of every chunk file, then return chunk_files
Summary ==
    /\ pc = "summary"
    /\ IF \A i \in 1..Len(chunk_files) : chunk_files[i] \in DOMAIN fs
       THEN pc' = "done" /\ UNCHANGED error
       ELSE Raise("FileNotFoundError")
    /\ UNCHANGED mergeVars
    /\ UNCHANGED <<input_name, input_exists, has_header, source_eol, output_dir_arg,
                   keep_header,
                   target_size_bytes, row_bytes, fs, infile, rows_read, current_chunk,
                   chunk_number, chunk_files, current_size, w_path, w_ret, stale_left>>

SplitNext ==
    \/ CheckInput
    \/ EstimateRows
    \/ ReadHeader
    \/ NextRow
    \/ EndOfStream
    \/ WriteOpen
    \/ WriteBody
    \/ MeasureProbe
    \/ SealChunk
    \/ DiscardProbe
    \/ IOFailure
    \/ FinalChunk
    \/ FinalAppend
    \/ Cleanup
    \/ Summary

SplitSpec == SplitInit /\ [][SplitNext]_vars

----------------------------------------------------------------------------
\* merge_csv_files_by_pattern: text helpers

UpperCase == <<"A", "B", "C", "D", "E", "F", "G", "H", "I", "J", "K", "L", "M",
               "N", "O", "P", "Q", "R", "S", "T", "U", "V", "W", "X", "Y", "Z">>
LowerCase == <<"a", "b", "c", "d", "e", "f", "g", "h", "i", "j", "k", "l", "m",
               "n", "o", "p", "q", "r", "s", "t", "u", "v", "w", "x", "y", "z">>

LowerChar(c) ==
    IF \E i \in 1..26 : UpperCase[i] = c
    THEN LowerCase[CHOOSE i \in 1..26 : UpperCase[i] = c]
    ELSE c

\* str.lower()
Lower(s) == [i \in 1..Len(s) |-> LowerChar(s[i])]

\* p in s
Contains(s, p) == \E i \in 0..Len(s) : i + Len(p) <= Len(s) /\ SubSeq(s, i + 1, i + Len(p)) = p

\* os.path.basename
Basename(name) == SubSeq(name, RFind(name, "/") + 1, Len(name))

RECURSIVE LStrip(_)
LStrip(s) == IF s # <<>> /\ Head(s) = "/" THEN LStrip(Tail(s)) ELSE s

RECURSIVE RStrip(_)
RStrip(s) == IF s # <<>> /\ s[Len(s)] = "/" THEN RStrip(SubSeq(s, 1, Len(s) - 1)) ELSE s

\* str.strip('/')
Strip(s) == RStrip(LStrip(s))

S_csv == <<".", "c", "s", "v">>
S_slash == <<"/">>

----------------------------------------------------------------------------
\* Tables (DataFrames): a list of column names and a list of rows, each row a
\* list of cells aligned with the columns.  A cell is text; the empty text is
\* a missing value.

NaN == <<>>

Table(cols, rows) == [cols |-> cols, rows |-> rows]

ColIndex(df, c) == CHOOSE i \in 1..Len(df.cols) : df.cols[i] = c

HasCol(df, c) == \E i \in 1..Len(df.cols) : df.cols[i] = c

Indices(n) == [i \in 1..n |-> i]

\* df.drop(columns=[col for col in names if col in df.columns])
DropColumns(df, names) ==
    LET keep == SelectSeq(Indices(Len(df.cols)), LAMBDA i : df.cols[i] \notin names)
    IN Table([k \in 1..Len(keep) |-> df.cols[keep[k]]],
             [r \in 1..Len(df.rows) |-> [k \in 1..Len(keep) |-> df.rows[r][keep[k]]]])

\* df[c] = v
SetColumn(df, c, v) ==
    IF HasCol(df, c)
    THEN Table(df.cols,
               [r \in 1..Len(df.rows) |-> [df.rows[r] EXCEPT ![ColIndex(df, c)] = v]])
    ELSE Table(Append(df.cols, c), [r \in 1..Len(df.rows) |-> Append(df.rows[r], v)])

RECURSIVE UnionCols(_)
UnionCols(dfs) ==
    IF dfs = <<>> THEN <<>>
    ELSE LET rest == UnionCols(SubSeq(dfs, 1, Len(dfs) - 1))
             last == dfs[Len(dfs)]
         IN rest \o SelectSeq(last.cols, LAMBDA c : \A i \in 1..Len(rest) : rest[i] # c)

Reindex(df, cols) ==
    [r \in 1..Len(df.rows) |->
        [k \in 1..Len(cols) |->
            IF HasCol(df, cols[k]) THEN df.rows[r][ColIndex(df, cols[k])] ELSE NaN]]

RECURSIVE ConcatAligned(_, _)
ConcatAligned(dfs, cols) ==
    IF dfs = <<>> THEN <<>>
    ELSE Reindex(Head(dfs), cols) \o ConcatAligned(Tail(dfs), cols)

\* pd.concat(merged_data, ignore_index=True): union of the columns in order of
\* first appearance, rows in list order, missing cells NaN
Concat(dfs) == Table(UnionCols(dfs), ConcatAligned(dfs, UnionCols(dfs)))

----------------------------------------------------------------------------
\* The container and the arguments

ContainerName == <<"c">>

B_root_truth == <<"o", "/", "t", ".", "c", "s", "v">>
B_sub_truth_upper == <<"o", "/", "a", "/", "T", ".", "C", "S", "V">>
B_truth_dir == <<"o", "/", "t", "/", "b", ".", "c", "s", "v">>
B_sub_other == <<"o", "/", "a", "/", "b", ".", "c", "s", "v">>
B_nested == <<"o", "/", "a", "/", "c", "/", "b", ".", "c", "s", "v">>
B_not_csv == <<"o", "/", "x", ".", "t", "x", "t">>
B_outside == <<"r", ".", "c", "s", "v">>

Blob(name, table) == [name |-> name, table |-> table]

\* The blobs of the container before the first run, in listing order.  One of
\* them carries bookkeeping columns of an earlier merge.

InitialContainer ==
    << Blob(B_root_truth, Table(<<"x">>, << <<<<"r", "1", "1">>>>, <<<<"r", "1", "2">>>> >>)),
       Blob(B_sub_truth_upper, Table(<<"x", "y">>, << <<<<"r", "2", "1">>, <<"s", "2", "1">>>> >>)),
       Blob(B_truth_dir, Table(<<"x">>, << <<<<"r", "3", "1">>>> >>)),
       Blob(B_sub_other,
            Table(<<"source_file", "x", "file_size">>, << <<<<"o", "l", "d">>, <<"r", "4", "1">>, <<"9">>>> >>)),
       Blob(B_nested, Table(<<"y", "x">>, << <<<<"s", "5", "1">>, <<"r", "5", "1">>>>, <<<<"s", "5", "2">>, <<"r", "5", "2">>>> >>)),
       Blob(B_not_csv, Table(<<>>, <<>>)),
       Blob(B_outside, Table(<<"x">>, << <<<<"r", "7", "1">>>> >>)) >>

\* The blobs whose download or parse can fail
Flaky == {B_sub_truth_upper, B_sub_other}

BasePathArgs == {<<>>, <<"o">>, <<"/", "o", "/">>}

Subfolders(names) == [is_none |-> FALSE, names |-> names]

SubfolderArgs ==
    {[is_none |-> TRUE, names |-> <<>>],
     Subfolders(<<>>),
     Subfolders(<< <<"a", "/">>, <<"a">> >>),
     Subfolders(<< <<"t">>, <<"/", "a", "/", "c", "/">> >>)}

TruthPatterns == {<<"T">>, <<"b">>}

truth_output == <<"m", "t", ".", "c", "s", "v">>
other_output == <<"m", "o", ".", "c", "s", "v">>
upload_path == <<"o">>

BlobNames(c) == [i \in 1..Len(c) |-> c[i].name]

HasBlob(c, name) == \E i \in 1..Len(c) : c[i].name = name

TableOf(c, name) == c[CHOOSE i \in 1..Len(c) : c[i].name = name].table

\* upload_blob(name, data, overwrite=True)
UploadBlob(c, name, table) ==
    IF HasBlob(c, name)
    THEN [i \in 1..Len(c) |-> IF c[i].name = name THEN Blob(name, table) ELSE c[i]]
    ELSE Append(c, Blob(name, table))

\* lines 196-202
FullBlobPath(path, blob_path) ==
    IF path # <<>> /\ ~EndsWith(path, S_slash) THEN path \o S_slash \o blob_path
    ELSE IF path # <<>> THEN path \o blob_path
    ELSE blob_path

----------------------------------------------------------------------------
\* merge_csv_files_by_pattern: the pure steps

\* lines 119-123
NormalizeBasePath(bp) ==
    IF bp # <<>>
    THEN (IF Strip(bp) # <<>> THEN Strip(bp) \o S_slash ELSE Strip(bp))
    ELSE bp

\* container_client.list_blobs(name_starts_with=base_path), lines 130-133
ListBlobNames(c, bp) ==
    IF bp # <<>> THEN SelectSeq(BlobNames(c), LAMBDA n : StartsWith(n, bp))
    ELSE BlobNames(c)

\* line 135
CsvBlobs(names) == SelectSeq(names, LAMBDA n : EndsWith(Lower(n), S_csv))

\* lines 152-156
RelativePath(blob_path, bp) ==
    IF bp # <<>> /\ StartsWith(blob_path, bp)
    THEN SubSeq(blob_path, Len(bp) + 1, Len(blob_path))
    ELSE blob_path

RECURSIVE SubfolderAppendsNoBreak(_, _, _)
SubfolderAppendsNoBreak(blob, relative_path, subs) ==
    IF subs = <<>> THEN <<>>
    ELSE (IF StartsWith(relative_path, Strip(Head(subs)) \o S_slash) THEN <<blob>> ELSE <<>>)
         \o SubfolderAppendsNoBreak(blob, relative_path, Tail(subs))

\* lines 164-168: the first listed subfolder that matches appends the blob and
\* ends the loop
RECURSIVE SubfolderAppends(_, _, _)
SubfolderAppends(blob, relative_path, subs) ==
    IF subs = <<>> THEN <<>>
    ELSE IF StartsWith(relative_path, Strip(Head(subs)) \o S_slash) THEN <<blob>>
    ELSE SubfolderAppends(blob, relative_path, Tail(subs))

\* lines 150-168: what one iteration appends to filtered_blobs
BlobAppends(blob, bp, subs, root) ==
    LET relative_path == RelativePath(blob, bp)
    IN IF root /\ ~Contains(relative_path, S_slash) THEN <<blob>>
       ELSE SubfolderAppends(blob, relative_path, subs)

RECURSIVE FilterLoop(_, _, _, _)
FilterLoop(blobs, bp, subs, root) ==
    IF blobs = <<>> THEN <<>>
    ELSE BlobAppends(Head(blobs), bp, subs, root) \o FilterLoop(Tail(blobs), bp, subs, root)

\* lines 141-168
FilterBlobs(blobs, bp, subs, root) ==
    IF subs.is_none THEN blobs ELSE FilterLoop(blobs, bp, subs.names, root)

ClassifyKeyFullPath(name) == Lower(name)

\* line 181
ClassifyKey(name) == Lower(Basename(name))

\* line 182
IsTruth(name, pattern) == Contains(ClassifyKey(name), Lower(pattern))

metadata_columns == {"source_file", "source_path", "file_size", "merge_timestamp",
                     "container_name"}

DropNothing(df) == df

\* lines 238-239
DropMetadata(df) == DropColumns(df, metadata_columns)

\* lines 242-245
AddMetadata(df, name) ==
    SetColumn(SetColumn(SetColumn(df, "source_file", Basename(name)),
                        "source_path", name),
              "container_name", ContainerName)

\* lines 235-245
ProcessTable(df, name, meta) ==
    IF meta THEN AddMetadata(DropMetadata(df), name) ELSE DropMetadata(df)

StopAfterFailure(i, n) == n + 1

\* line 228: the except clause ends the iteration and the loop goes on
NextAfterFailure(i, n) == i + 1

SkipOtherAfterAllFailed(g, ok) == IF g = "truth" /\ ok THEN "other" ELSE "finish"

\* lines 299-308: what follows the return of merge_blobs, whatever it returned
AfterGroup(g, ok) == IF g = "truth" THEN "other" ELSE "finish"

----------------------------------------------------------------------------
\* merge_csv_files_by_pattern: runs

MaxRuns == 2

Groups == {"truth", "other"}

GroupBlobs(g) == IF g = "truth" THEN truth_blobs ELSE other_blobs

GroupOutput(g) == IF g = "truth" THEN truth_output ELSE other_output

NoTable == Table(<<>>, <<>>)

logVars == <<root_handlers, log_files>>

\* log_file of a call: consecutive calls are given different log files
LogFileOf(run) == run

\* logging.basicConfig(handlers=[FileHandler(log_file, mode='w'), ...]),
\* lines 58-65: it installs the handlers only when the root logger has none
BasicConfig(handlers, file) == IF handlers = {} THEN {file} ELSE handlers

\* logging.FileHandler(log_file, mode='w'), line 62: the file is created or
\* truncated when the handler is built, installed or not
OpenLogFile(files, file) == Put(files, file, {})

\* logger.info / logger.error of a run: the logger of the module has no
\* handler of its own, the record goes to the handlers of the root logger
Logged(files, handlers, run) ==
    [f \in DOMAIN files |-> IF f \in handlers THEN files[f] \cup {run} ELSE files[f]]

\* logger.handlers of logging.getLogger(__name__), line 312: nothing is ever
\* added to it
ModuleLoggerHandlers == {}

\* lines 312-314: the handlers of the module's logger are closed and removed
RemoveHandlers(handlers) == handlers \ ModuleLoggerHandlers

\* A step that logs
Logs ==
    /\ log_files' = Logged(log_files, root_handlers, m_run)
    /\ UNCHANGED root_handlers

MergeLocalsReset ==
    /\ base_path' = <<>>
    /\ csv_blobs' = <<>>
    /\ filtered_blobs' = <<>>
    /\ truth_blobs' = <<>>
    /\ other_blobs' = <<>>
    /\ group' = "none"
    /\ g_i' = 0
    /\ merged_data' = <<>>
    /\ successful_files' = <<>>
    /\ failed_files' = <<>>
    /\ attempt_log' = [g \in Groups |-> <<>>]
    /\ writes' = [g \in Groups |-> 0]

\* A return of merge_csv_files_by_pattern: its locals are gone
Return ==
    /\ mpc' = "idle"
    /\ MergeLocalsReset

\* The splitter at rest, for the runs of the merger
SplitIdle ==
    /\ input_name = S_d_csv
    /\ input_exists = FALSE
    /\ has_header = FALSE
    /\ source_eol = LineTerminatorBytes
    /\ output_dir_arg = "None"
    /\ keep_header = TRUE
    /\ target_size_bytes = 0
    /\ row_bytes = <<1, 1>>
    /\ fs = <<>>
    /\ infile = "intact"
    /\ pc = "idle"
    /\ error = "none"
    /\ rows_read = <<>>
    /\ current_chunk = <<>>
    /\ chunk_number = 1
    /\ chunk_files = <<>>
    /\ current_size = 0
    /\ w_path = <<>>
    /\ w_ret = "none"
    /\ stale_left = 0

MergeInit ==
    /\ base_path_arg \in BasePathArgs
    /\ subfolders \in SubfolderArgs
    /\ include_root \in BOOLEAN
    /\ truth_pattern \in TruthPatterns
    /\ add_metadata \in BOOLEAN
    /\ upload_to_azure \in BOOLEAN
    /\ container = InitialContainer
    /\ local_files = [f \in {} |-> NoTable]
    /\ mpc = "idle"
    /\ m_run = 0
    /\ base_path = <<>>
    /\ csv_blobs = <<>>
    /\ filtered_blobs = <<>>
    /\ truth_blobs = <<>>
    /\ other_blobs = <<>>
    /\ group = "none"
    /\ g_i = 0
    /\ merged_data = <<>>
    /\ successful_files = <<>>
    /\ failed_files = <<>>
    /\ attempt_log = [g \in Groups |-> <<>>]
    /\ writes = [g \in Groups |-> 0]
    /\ root_handlers = {}
    /\ log_files = <<>>
    /\ SplitIdle

margs == <<base_path_arg, subfolders, include_root, truth_pattern, add_metadata,
           upload_to_azure>>

\* lines 10-80: a call of merge_csv_files_by_pattern.  A further call is
\* taken when the outputs of the earlier one were uploaded to the container.
StartRun ==
    /\ mpc = "idle"
    /\ m_run < MaxRuns
    /\ m_run = 0 \/ upload_to_azure
    /\ m_run' = m_run + 1
    /\ root_handlers' = BasicConfig(root_handlers, LogFileOf(m_run'))
    /\ log_files' = Logged(OpenLogFile(log_files, LogFileOf(m_run')), root_handlers', m_run')
    /\ mpc' = "auth"
    /\ UNCHANGED <<margs, container, local_files, base_path, csv_blobs,
                   filtered_blobs, truth_blobs, other_blobs, group, g_i, merged_data,
                   successful_files, failed_files, attempt_log, writes>>
    /\ UNCHANGED splitVars

\* lines 82-117: the client is built, or the credential fails and the call
\* returns (line 104)
Authenticate ==
    /\ mpc = "auth"
    /\ \E ok \in BOOLEAN :
         IF ok
         THEN /\ mpc' = "normalize"
              /\ UNCHANGED <<base_path, csv_blobs, filtered_blobs, truth_blobs,
                             other_blobs, group, g_i, merged_data, successful_files,
                             failed_files, attempt_log, writes>>
         ELSE Return
    /\ UNCHANGED <<margs, container, local_files, m_run>>
    /\ Logs
    /\ UNCHANGED splitVars

\* lines 119-126
NormalizePath ==
    /\ mpc = "normalize"
    /\ base_path' = NormalizeBasePath(base_path_arg)
    /\ mpc' = "list"
    /\ UNCHANGED <<margs, container, local_files, m_run, csv_blobs,
                   filtered_blobs, truth_blobs, other_blobs, group, g_i, merged_data,
                   successful_files, failed_files, attempt_log, writes>>
    /\ Logs
    /\ UNCHANGED splitVars

\* lines 128-139: the listing, or an error of the listing and the return at
\* line 139
ListBlobs ==
    /\ mpc = "list"
    /\ \E ok \in BOOLEAN :
         IF ok
         THEN /\ csv_blobs' = CsvBlobs(ListBlobNames(container, base_path))
              /\ mpc' = "filter"
              /\ UNCHANGED <<base_path, filtered_blobs, truth_blobs, other_blobs,
                             group, g_i, merged_data, successful_files, failed_files,
                             attempt_log, writes>>
         ELSE Return
    /\ UNCHANGED <<margs, container, local_files, m_run>>
    /\ Logs
    /\ UNCHANGED splitVars

\* lines 141-174
Filter ==
    /\ mpc = "filter"
    /\ filtered_blobs' = FilterBlobs(csv_blobs, base_path, subfolders, include_root)
    /\ mpc' = IF filtered_blobs' = <<>> THEN "no_files" ELSE "classify"
    /\ UNCHANGED <<margs, container, local_files, m_run, base_path, csv_blobs,
                   truth_blobs, other_blobs, group, g_i, merged_data,
                   successful_files, failed_files, attempt_log, writes>>
    /\ UNCHANGED logVars
    /\ UNCHANGED splitVars

\* lines 176-188
Classify ==
    /\ mpc = "classify"
    /\ truth_blobs' = SelectSeq(filtered_blobs, LAMBDA b : IsTruth(b, truth_pattern))
    /\ other_blobs' = SelectSeq(filtered_blobs, LAMBDA b : ~IsTruth(b, truth_pattern))
    /\ mpc' = "truth"
    /\ UNCHANGED <<margs, container, local_files, m_run, base_path, csv_blobs,
                   filtered_blobs, group, g_i, merged_data,
                   successful_files, failed_files, attempt_log, writes>>
    /\ UNCHANGED logVars
    /\ UNCHANGED splitVars

\* lines 294-299 and 301-306 with lines 218-226: a non-empty group is handed
\* to merge_blobs; for an empty group merge_blobs is not called
StartGroup ==
    /\ mpc \in Groups
    /\ IF GroupBlobs(mpc) # <<>>
       THEN /\ group' = mpc
            /\ g_i' = 1
            /\ merged_data' = <<>>
            /\ successful_files' = <<>>
            /\ failed_files' = <<>>
            /\ mpc' = "reading"
       ELSE /\ mpc' = AfterGroup(mpc, TRUE)
            /\ UNCHANGED <<group, g_i, merged_data, successful_files, failed_files>>
    /\ UNCHANGED <<margs, container, local_files, m_run, base_path, csv_blobs,
                   filtered_blobs, truth_blobs, other_blobs, attempt_log, writes>>
    /\ Logs
    /\ UNCHANGED splitVars

\* lines 228-249: the blob is downloaded and parsed
ReadBlob ==
    /\ mpc = "reading"
    /\ g_i <= Len(GroupBlobs(group))
    /\ LET name == GroupBlobs(group)[g_i]
       IN /\ HasBlob(container, name)
          /\ merged_data' = Append(merged_data,
                                   ProcessTable(TableOf(container, name), name, add_metadata))
          /\ successful_files' = Append(successful_files, name)
          /\ attempt_log' = [attempt_log EXCEPT
                                ![group] = Append(@, [name |-> name, ok |-> TRUE])]
    /\ g_i' = g_i + 1
    /\ UNCHANGED <<margs, container, local_files, mpc, m_run, base_path, csv_blobs,
                   filtered_blobs, truth_blobs, other_blobs, group, failed_files,
                   writes>>
    /\ Logs
    /\ UNCHANGED splitVars

\* lines 228-232 and 251-253: the download or the parse raises
ReadBlobFails ==
    /\ mpc = "reading"
    /\ g_i <= Len(GroupBlobs(group))
    /\ LET name == GroupBlobs(group)[g_i]
       IN /\ name \in Flaky
          /\ failed_files' = Append(failed_files, name)
          /\ attempt_log' = [attempt_log EXCEPT
                                ![group] = Append(@, [name |-> name, ok |-> FALSE])]
    /\ g_i' = NextAfterFailure(g_i, Len(GroupBlobs(group)))
    /\ UNCHANGED <<margs, container, local_files, mpc, m_run, base_path, csv_blobs,
                   filtered_blobs, truth_blobs, other_blobs, group, merged_data,
                   successful_files, writes>>
    /\ Logs
    /\ UNCHANGED splitVars

\* lines 255-288: the aggregate is written, and uploaded when asked for; a
\* failed upload is only logged (lines 213-215) and leaves the container as
\* it was
WriteAggregate ==
    /\ mpc = "reading"
    /\ g_i > Len(GroupBlobs(group))
    /\ merged_data # <<>>
    /\ LET final_df == Concat(merged_data)
       IN /\ local_files' = Put(local_files, GroupOutput(group), final_df)
          /\ \E uploaded \in (IF upload_to_azure THEN BOOLEAN ELSE {FALSE}) :
               container' = IF uploaded
                            THEN UploadBlob(container,
                                            FullBlobPath(upload_path, GroupOutput(group)),
                                            final_df)
                            ELSE container
    /\ writes' = [writes EXCEPT ![group] = @ + 1]
    /\ mpc' = AfterGroup(group, TRUE)
    /\ UNCHANGED <<margs, m_run, base_path, csv_blobs, filtered_blobs, truth_blobs,
                   other_blobs, group, g_i, merged_data, successful_files, failed_files,
                   attempt_log>>
    /\ Logs
    /\ UNCHANGED splitVars

\* lines 289-291: no file of the group could be read
AllFailed ==
    /\ mpc = "reading"
    /\ g_i > Len(GroupBlobs(group))
    /\ merged_data = <<>>
    /\ mpc' = AfterGroup(group, FALSE)
    /\ UNCHANGED <<margs, container, local_files, m_run, base_path, csv_blobs,
                   filtered_blobs, truth_blobs, other_blobs, group, g_i, merged_data,
                   successful_files, failed_files, attempt_log, writes>>
    /\ Logs
    /\ UNCHANGED splitVars

\* lines 308-314, and the return at line 174 when nothing passed the filter
Finish ==
    /\ mpc \in {"finish", "no_files"}
    /\ Return
    /\ UNCHANGED <<margs, container, local_files, m_run>>
    /\ IF mpc = "finish"
       THEN /\ log_files' = Logged(log_files, root_handlers, m_run)
            /\ root_handlers' = RemoveHandlers(root_handlers)
       ELSE UNCHANGED logVars
    /\ UNCHANGED splitVars

MergeNext ==
    \/ StartRun
    \/ Authenticate
    \/ NormalizePath
    \/ ListBlobs
    \/ Filter
    \/ Classify
    \/ StartGroup
    \/ ReadBlob
    \/ ReadBlobFails
    \/ WriteAggregate
    \/ AllFailed
    \/ Finish

MergeSpec == MergeInit /\ [][MergeNext]_vars

----------------------------------------------------------------------------
\* Claims about split_csv_by_size

RECURSIVE ConcatRows(_, _)
ConcatRows(paths, f) ==
    IF paths = <<>> THEN <<>>
    ELSE f[Head(paths)].rows \o ConcatRows(Tail(paths), f)

DigitValue(c) == (CHOOSE i \in 1..10 : Digits[i] = c) - 1

RECURSIVE DecimalValue(_)
DecimalValue(s) ==
    IF s = <<>> THEN 0
    ELSE 10 * DecimalValue(SubSeq(s, 1, Len(s) - 1)) + DigitValue(s[Len(s)])

\* The chunks with a number below chunk_number were sealed by the size test;
\* the end-of-stream chunk is written under chunk_number itself.
SizeSealed(k) == k \in 1..Len(chunk_files) /\ k < chunk_number

\* C1: when split_csv_by_size returns normally, the data rows of the chunks of
\* the returned list, concatenated in list order, are exactly the source's data
\* rows 1..n in their original order: none lost, none duplicated, every chunk a
\* contiguous run.
SplitC1_RowsPartitioned ==
    pc = "done" =>
        /\ \A k \in 1..Len(chunk_files) : chunk_files[k] \in DOMAIN fs
        /\ ConcatRows(chunk_files, fs) = rows_read
        /\ \A i \in 1..Len(rows_read) : rows_read[i] = i
        /\ \A k \in 1..Len(chunk_files) : fs[chunk_files[k]].rows # <<>>

SplitC1_Witness ==
    /\ pc = "done"
    /\ Len(chunk_files) = 3
    /\ Len(rows_read) = 201

\* C2: every chunk sealed by the size test holds a positive multiple of 100
\* rows, so every chunk of the returned list other than the last holds at
\* least 100 rows; only the end-of-stream chunk may hold fewer.
SplitC2_SoftFloor ==
    /\ \A k \in 1..Len(chunk_files) :
         (SizeSealed(k) /\ chunk_files[k] \in DOMAIN fs) =>
             /\ Len(fs[chunk_files[k]].rows) >= 100
             /\ Len(fs[chunk_files[k]].rows) % 100 = 0
    /\ pc = "done" =>
         \A k \in 1..Len(chunk_files) :
             k < Len(chunk_files) => Len(fs[chunk_files[k]].rows) >= 100

SplitC2_Witness ==
    /\ pc = "done"
    /\ Len(chunk_files) = 2
    /\ Len(fs[chunk_files[1]].rows) = 200
    /\ Len(fs[chunk_files[2]].rows) = 1

ProbeBoundaries(rows) == {j \in 1..Len(rows) : j % 100 = 0}

SizeSealedChunksMeasured ==
    \A k \in 1..Len(chunk_files) :
        (SizeSealed(k) /\ chunk_files[k] \in DOMAIN fs) =>
            LET c == fs[chunk_files[k]]
            IN /\ FileSize(c) >= target_size_bytes
               /\ \A j \in ProbeBoundaries(c.rows) :
                    j < Len(c.rows) =>
                        FileSize([c EXCEPT !.rows = SubSeq(c.rows, 1, j)]) < target_size_bytes

ProbeIsOfOpenChunk ==
    pc = "decide" =>
        /\ Len(current_chunk) % 100 = 0
        /\ Len(current_chunk) > 0
        /\ current_size = (IF keep_header THEN HeaderPayload + LineTerminatorBytes ELSE 0)
                          + RowsBytes(current_chunk)

ProbeDecides ==
    (pc = "decide" /\ pc' = "loop") =>
        /\ current_size >= target_size_bytes =>
             /\ chunk_files' = Append(chunk_files, ChunkPath(chunk_number))
             /\ fs'[ChunkPath(chunk_number)].rows = current_chunk
             /\ current_chunk' = <<>>
        /\ current_size < target_size_bytes =>
             /\ chunk_files' = chunk_files
             /\ current_chunk' = current_chunk
             /\ temp_chunk_path \notin DOMAIN fs'

\* C3: a chunk is sealed before end of stream if and only if a probe taken at
\* a 100-row boundary measures the chunk in progress at or above the target:
\* a sealed chunk measured >= target at its sealing probe and < target at each
\* earlier 100-row boundary, a probe below the target never seals, and a probe
\* at or above the target never lets accumulation continue.
SplitC3_SealIffProbeAtTarget ==
    /\ [](SizeSealedChunksMeasured /\ ProbeIsOfOpenChunk)
    /\ [][ProbeDecides /\ (Len(chunk_files') > Len(chunk_files) /\ pc' = "loop"
                            => pc = "decide" /\ current_size >= target_size_bytes)]_vars

SplitC3_Witness ==
    \E k \in 1..Len(chunk_files) :
        /\ SizeSealed(k)
        /\ chunk_files[k] \in DOMAIN fs
        /\ Len(fs[chunk_files[k]].rows) = 200
        /\ FileSize(fs[chunk_files[k]]) = target_size_bytes

ExpectedBase == IF input_name = S_d_csv THEN <<"d">> ELSE S_temp_chunk
ExpectedExtension == <<".", "c", "s", "v">>

\* The k-th path is <output_dir>/{baseName}_chunk_{k:03d}{extension}
PathNumbered(p, k) ==
    LET pre == ExpectedBase \o S_chunk
        num == SubSeq(p.name, Len(pre) + 1, Len(pre) + 3)
    IN /\ p.dir = (IF output_dir_arg = "None" THEN InputDir ELSE output_dir_arg)
       /\ Len(p.name) = Len(pre) + 3 + Len(ExpectedExtension)
       /\ StartsWith(p.name, pre)
       /\ EndsWith(p.name, ExpectedExtension)
       /\ \A i \in 1..3 : \E d \in 1..10 : num[i] = Digits[d]
       /\ DecimalValue(num) = k

PathsNumbered == \A k \in 1..Len(chunk_files) : PathNumbered(chunk_files[k], k)

FinalChunkAppended == pc \in {"cleanup", "summary", "done"} /\ current_chunk # <<>>

\* C4 as stated: at every point of a run chunk_number is the number of sealed
\* chunks plus one, and the k-th path carries the number k.
SplitC4_Original ==
    /\ chunk_number = Len(chunk_files) + 1
    /\ PathsNumbered

\* C4 as amended: the k-th path of chunk_files carries the number k, for
\* size-sealed and end-of-stream chunks alike; chunk_number is the number of
\* chunks plus one up to the end of the stream, and is not incremented for the
\* end-of-stream chunk, after whose append it equals the number of chunks.
SplitC4_Numbering ==
    /\ PathsNumbered
    /\ pc # "raised" =>
         chunk_number = Len(chunk_files) + (IF FinalChunkAppended THEN 0 ELSE 1)
    /\ chunk_number \in {Len(chunk_files), Len(chunk_files) + 1}

SplitC4_Witness ==
    /\ pc = "done"
    /\ Len(chunk_files) = 3
    /\ chunk_number = 3
    /\ output_dir_arg = "out"

\* C10: splitting an existing input file without any row ends with
\* ValueError("CSV file is empty") and writes no chunk file.
SplitC10_EmptySourceError ==
    (input_exists /\ ~has_header /\ pc \in {"raised", "done"}) =>
        /\ pc = "raised"
        /\ error = "ValueError: CSV file is empty"
        /\ DOMAIN fs = {input_path}

----------------------------------------------------------------------------
\* Claims about merge_csv_files_by_pattern

Names(log) == [i \in 1..Len(log) |-> log[i].name]

Elems(s) == {s[i] : i \in 1..Len(s)}

NoDuplicates(s) == \A i, j \in 1..Len(s) : s[i] = s[j] => i = j

Classified == mpc \in {"truth", "other", "reading", "finish"}

\* The last component of a blob name: what follows its last "/"
LastSlash(name) ==
    CHOOSE i \in 0..Len(name) :
        /\ i = 0 \/ name[i] = "/"
        /\ \A j \in (i + 1)..Len(name) : name[j] # "/"

LastComponent(name) == SubSeq(name, LastSlash(name) + 1, Len(name))

MarkerInBasename(name) ==
    LET base == Lower(LastComponent(name))
        marker == Lower(truth_pattern)
    IN \E i \in 0..(Len(base) - Len(marker)) :
           SubSeq(base, i + 1, i + Len(marker)) = marker

\* C5: the truth group and the other group are disjoint, together they are the
\* filtered blobs, each keeps the listing order, and a blob is in the truth
\* group exactly when its lower-cased basename contains the lower-cased marker:
\* a marker that occurs only in a directory component does not count, and two
\* blobs with the same basename land in the same group.
MergeC5_Partition ==
    Classified =>
        /\ Elems(truth_blobs) \cap Elems(other_blobs) = {}
        /\ Elems(truth_blobs) \cup Elems(other_blobs) = Elems(filtered_blobs)
        /\ Len(truth_blobs) + Len(other_blobs) = Len(filtered_blobs)
        /\ truth_blobs = SelectSeq(filtered_blobs, LAMBDA b : b \in Elems(truth_blobs))
        /\ other_blobs = SelectSeq(filtered_blobs, LAMBDA b : b \in Elems(other_blobs))
        /\ \A b \in Elems(filtered_blobs) : b \in Elems(truth_blobs) <=> MarkerInBasename(b)
        /\ \A b, c \in Elems(filtered_blobs) :
             LastComponent(b) = LastComponent(c) =>
                 (b \in Elems(truth_blobs) <=> c \in Elems(truth_blobs))
        /\ truth_pattern = <<"T">> => B_truth_dir \notin Elems(truth_blobs)

MergeC5_Witness ==
    /\ mpc = "truth"
    /\ truth_pattern = <<"T">>
    /\ B_truth_dir \in Elems(other_blobs)
    /\ B_sub_other \in Elems(other_blobs)
    /\ B_sub_truth_upper \in Elems(truth_blobs)
    /\ B_root_truth \in Elems(truth_blobs)

XColumn(df) == [r \in 1..Len(df.rows) |-> df.rows[r][ColIndex(df, "x")]]

RECURSIVE XOfSucceeded(_, _)
XOfSucceeded(log, c) ==
    IF log = <<>> THEN <<>>
    ELSE (IF Head(log).ok THEN XColumn(TableOf(c, Head(log).name)) ELSE <<>>)
         \o XOfSucceeded(Tail(log), c)

FailedCount(log) == Cardinality({i \in 1..Len(log) : ~log[i].ok})

AttemptsInOrder ==
    mpc = "reading" =>
        /\ Names(attempt_log[group]) = SubSeq(GroupBlobs(group), 1, g_i - 1)
        /\ Len(failed_files) = FailedCount(attempt_log[group])
        /\ successful_files = Names(SelectSeq(attempt_log[group], LAMBDA e : e.ok))
        /\ failed_files = Names(SelectSeq(attempt_log[group], LAMBDA e : ~e.ok))
        /\ Len(merged_data) = Len(successful_files)

GroupEnds == mpc = "reading" /\ mpc' # "reading"

AggregateOfSucceeded ==
    GroupEnds =>
        /\ Names(attempt_log[group]) = GroupBlobs(group)
        /\ (\E i \in 1..Len(attempt_log[group]) : attempt_log[group][i].ok) =>
             /\ GroupOutput(group) \in DOMAIN local_files'
             /\ XColumn(local_files'[GroupOutput(group)])
                    = XOfSucceeded(attempt_log[group], container)

\* C6: merge_blobs attempts every file of a non-empty group exactly once in
\* group order, whichever of them fail; the aggregate written holds the rows
\* of exactly the files that succeeded, in group order and in their order
\* within each file; the failures recorded are the files that failed.
MergeC6_FailureIsolation == []AttemptsInOrder /\ [][AggregateOfSucceeded]_vars

MergeC6_Witness ==
    /\ mpc = "finish"
    /\ group = "other"
    /\ other_blobs = <<B_truth_dir, B_sub_other, B_nested>>
    /\ failed_files = <<B_sub_other>>
    /\ successful_files = <<B_truth_dir, B_nested>>
    /\ writes["other"] = 1
    /\ XColumn(local_files[other_output]) = <<<<"r", "3", "1">>, <<"r", "5", "1">>, <<"r", "5", "2">>>>

InjectedColumns == {"source_file", "source_path", "container_name"}

BookkeepingColumns ==
    {"source_file", "source_path", "file_size", "merge_timestamp", "container_name"}

MergedOutputs == {<<"o", "/", "m", "t", ".", "c", "s", "v">>, <<"o", "/", "m", "o", ".", "c", "s", "v">>}

ColumnCount(df, c) == Cardinality({i \in 1..Len(df.cols) : df.cols[i] = c})

FreshBookkeeping(df, name) ==
    \A r \in 1..Len(df.rows) :
        /\ df.rows[r][ColIndex(df, "source_file")] = LastComponent(name)
        /\ df.rows[r][ColIndex(df, "source_path")] = name
        /\ df.rows[r][ColIndex(df, "container_name")] = ContainerName

\* C7: after merge_blobs has processed a table, its columns are the input's
\* columns without the bookkeeping columns plus, when add_metadata is set, one
\* fresh copy of every injected column; a merged output that is merged again
\* keeps the column set it has, and no column occurs twice.
MergeC7_BookkeepingColumns ==
    mpc = "reading" =>
        \A k \in 1..Len(merged_data) :
            LET input == TableOf(container, successful_files[k])
                df == merged_data[k]
            IN /\ Elems(df.cols) = (Elems(input.cols) \ BookkeepingColumns)
                                   \cup (IF add_metadata THEN InjectedColumns ELSE {})
               /\ \A c \in Elems(df.cols) : ColumnCount(df, c) = 1
               /\ Len(df.rows) = Len(input.rows)
               /\ \A r \in 1..Len(df.rows) : Len(df.rows[r]) = Len(df.cols)
               /\ add_metadata => FreshBookkeeping(df, successful_files[k])
               /\ successful_files[k] \in MergedOutputs =>
                      Elems(df.cols) = Elems(input.cols)

MergeC7_Witness ==
    /\ mpc = "reading"
    /\ m_run = 2
    /\ add_metadata
    /\ \E k \in 1..Len(merged_data) :
         /\ successful_files[k] = <<"o", "/", "m", "t", ".", "c", "s", "v">>
         /\ InjectedColumns \subseteq Elems(TableOf(container, successful_files[k]).cols)
         /\ InjectedColumns \subseteq Elems(merged_data[k].cols)

ExpectedPrefix == IF base_path_arg = <<>> THEN <<>> ELSE <<"o", "/">>

RelativeTo(name, prefix) == SubSeq(name, Len(prefix) + 1, Len(name))

KeptByFilter(name) ==
    \/ subfolders.is_none
    \/ include_root /\ \A i \in 1..Len(RelativeTo(name, ExpectedPrefix)) :
                           RelativeTo(name, ExpectedPrefix)[i] # "/"
    \/ \E k \in 1..Len(subfolders.names) :
         StartsWith(RelativeTo(name, ExpectedPrefix), Strip(subfolders.names[k]) \o <<"/">>)

Filtered == mpc \in {"classify", "no_files", "truth", "other", "reading", "finish"}

\* C8: the listed blobs whose name ends in ".csv" in any case are all kept
\* when subfolders is None; with a list of subfolders a blob is kept exactly
\* when include_root holds and its path relative to the normalised base path
\* has no "/", or that path starts with a listed subfolder (slashes stripped)
\* followed by "/"; a kept blob appears once, in listing order.
MergeC8_Filter ==
    /\ mpc = "filter" =>
         /\ base_path = ExpectedPrefix
         /\ csv_blobs = SelectSeq(BlobNames(container),
                                  LAMBDA n : /\ StartsWith(n, ExpectedPrefix)
                                             /\ Len(n) >= 4
                                             /\ Lower(SubSeq(n, Len(n) - 3, Len(n))) = <<".", "c", "s", "v">>)
    /\ Filtered =>
         /\ filtered_blobs = SelectSeq(csv_blobs, KeptByFilter)
         /\ NoDuplicates(filtered_blobs)

MergeC8_Witness ==
    /\ mpc = "classify"
    /\ ~include_root
    /\ base_path_arg = <<"/", "o", "/">>
    /\ subfolders = Subfolders(<< <<"a", "/">>, <<"a">> >>)
    /\ filtered_blobs = <<B_sub_truth_upper, B_sub_other, B_nested>>

SomeSucceeded(g) == \E i \in 1..Len(attempt_log[g]) : attempt_log[g][i].ok

GroupLifecycle(g) ==
    /\ writes[g] <= 1
    /\ writes[g] = 1 =>
         /\ GroupBlobs(g) # <<>>
         /\ Names(attempt_log[g]) = GroupBlobs(g)
         /\ SomeSucceeded(g)
         /\ GroupOutput(g) \in DOMAIN local_files
    /\ mpc = "finish" =>
         /\ GroupBlobs(g) = <<>> => writes[g] = 0 /\ attempt_log[g] = <<>>
         /\ GroupBlobs(g) # <<>> =>
              /\ Names(attempt_log[g]) = GroupBlobs(g)
              /\ writes[g] = IF SomeSucceeded(g) THEN 1 ELSE 0
    /\ mpc = "no_files" => writes[g] = 0 /\ attempt_log[g] = <<>> /\ GroupBlobs(g) = <<>>

OutputWrittenOnlyByAggregate ==
    local_files' # local_files =>
        \E g \in Groups :
            /\ mpc = "reading" /\ group = g
            /\ writes' = [writes EXCEPT ![g] = @ + 1]
            /\ Names(attempt_log[g]) = GroupBlobs(g)
            /\ \A p \in DOMAIN local_files :
                 p # GroupOutput(g) => p \in DOMAIN local_files' /\ local_files'[p] = local_files[p]

\* C9: an empty group ends with no output; a non-empty group has all its files
\* attempted before its output is written, exactly once, when at least one
\* file succeeded, and ends with no output written when every file failed; a
\* group whose files all failed does not keep the other group from being read
\* and written in the same run.
MergeC9_GroupLifecycle ==
    /\ [](\A g \in Groups : mpc # "idle" => GroupLifecycle(g))
    /\ [][OutputWrittenOnlyByAggregate]_vars

MergeC9_Witness ==
    /\ mpc = "finish"
    /\ truth_blobs # <<>>
    /\ ~SomeSucceeded("truth")
    /\ writes["truth"] = 0
    /\ truth_output \notin DOMAIN local_files
    /\ writes["other"] = 1
    /\ other_output \in DOMAIN local_files

----------------------------------------------------------------------------
\* Further claims about split_csv_by_size

NumberedChunkPaths == {ChunkPath(k) : k \in 1..chunk_number}

CompleteChunk(f) == f.kind = "csv" /\ f.closed /\ f.header = keep_header /\ f.rows # <<>>

\* C11: at every point of a run, a file that exists at a numbered chunk path
\* holds the complete content of its chunk: the header if kept and all rows,
\* written and closed.
SplitC11_NoPartialChunk ==
    \A p \in NumberedChunkPaths : p \in DOMAIN fs => CompleteChunk(fs[p])

RunEnded == pc \in {"done", "raised"}

\* C12: when a run has ended, by a return or by an error, no probe file
\* temp_chunk{extension} is left in the output directory (an input file that
\* itself has the probe's path is set aside).
SplitC12_NoProbeLeft ==
    (RunEnded /\ input_path # temp_chunk_path) => temp_chunk_path \notin DOMAIN fs

\* The size write_chunk gives the whole source: its header if kept and all
\* of its data rows in csv.writer's encoding
WrittenSize(rows) == FileSize(WrittenFile(keep_header, rows))

OneChunkOfAllRows ==
    /\ Len(chunk_files) = 1
    /\ chunk_files[1] \in DOMAIN fs
    /\ fs[chunk_files[1]] = WrittenFile(keep_header, rows_read)

NoChunkAtAll ==
    /\ chunk_files = <<>>
    /\ \A k \in 1..chunk_number : ChunkPath(k) \notin DOMAIN fs

ReadableSource == input_exists /\ has_header

\* C13 as stated: a source with a header and no data row ends without error
\* and without a chunk; a source with data rows whose own file size is below
\* the target ends with one chunk of all its rows.
SplitC13_Original ==
    /\ (pc = "raised" /\ ReadableSource) => rows_read # <<>>
    /\ (pc = "done" /\ rows_read = <<>>) => NoChunkAtAll
    /\ (pc = "done" /\ rows_read # <<>> /\ SourceSize(rows_read) < target_size_bytes)
           => OneChunkOfAllRows

\* C13: a source with a header and no data row ends without error and without
\* a chunk; a source with data rows ends with one chunk of all its rows when
\* the size write_chunk gives its header (if kept) and all its rows is below
\* the target, when no I/O error occurs and the input's base name does not
\* begin with temp_chunk.
SplitC13_BoundaryCounts ==
    /\ (pc = "raised" /\ ReadableSource) => rows_read # <<>>
    /\ (pc = "done" /\ rows_read = <<>>) => NoChunkAtAll
    /\ (pc = "done" /\ rows_read # <<>> /\ WrittenSize(rows_read) < target_size_bytes)
           => OneChunkOfAllRows
    /\ (pc = "raised" /\ ReadableSource /\ ~StartsWith(base_name, S_temp_chunk))
           => error = "OSError"
    /\ (RunEnded /\ ReadableSource /\ ~StartsWith(base_name, S_temp_chunk)
          /\ rows_read # <<>> /\ WrittenSize(rows_read) < target_size_bytes)
           => pc = "done" \/ error = "OSError"

SplitC13_Witness ==
    /\ pc = "done"
    /\ Len(rows_read) > ProbeInterval
    /\ WrittenSize(rows_read) < target_size_bytes
    /\ source_eol < LineTerminatorBytes
    /\ OneChunkOfAllRows

InputUntouched ==
    input_exists => /\ input_path \in DOMAIN fs
                    /\ fs[input_path] = SourceFile
                    /\ infile = "intact"

ChunksKept ==
    \A i \in 1..Len(chunk_files) :
        /\ chunk_files[i] \in DOMAIN fs
        /\ CompleteChunk(fs[chunk_files[i]])

\* C15: the probe write and the cleanup of temp_chunk* never overwrite or
\* delete the input file or a chunk file, whatever the name of the input and
\* the output directory: the input stays as it was and every path of
\* chunk_files names a file with its full content.
SplitC15_OnlyProbesTouched == InputUntouched /\ ChunksKept

----------------------------------------------------------------------------
\* Further claims about merge_csv_files_by_pattern

LinesInOwnFile ==
    \A run \in 1..m_run :
        /\ LogFileOf(run) \in DOMAIN log_files
        /\ run \in log_files[LogFileOf(run)]
        /\ \A f \in DOMAIN log_files : run \in log_files[f] => f = LogFileOf(run)

NoHandlerAfterReturn == mpc = "idle" => root_handlers = {}

\* C14: the log lines of every call go to the log file of that call and to no
\* other call's log file, and a call that has returned, on whichever return
\* path, leaves no logging handler installed.
MergeC14_SelfContained == LinesInOwnFile /\ NoHandlerAfterReturn

====
